---- MODULE Spec2Model ----
(***************************************************************************)
(* State-machine model of Webview (src/windows/webview.cc): the adapter    *)
(* between a host and the WebView2 composition controller.                 *)
(*                                                                         *)
(* The controller, the settings object and the composition surface are the *)
(* environment.  What the adapter hands to them is recorded in logs:       *)
(*   sent      the SendMouseInput calls, in order                          *)
(*   native    the other native calls, in order                            *)
(*   notified  the host callbacks invoked, in order                        *)
(*   cerr      the lines written to std::cerr                              *)
(* Native result codes and the values native getters return are inputs of  *)
(* the step that makes the call.                                           *)
(***************************************************************************)
EXTENDS Integers, Sequences, FiniteSets, TLC

VARIABLES
    virtual_keys_,      \* virtual_keys_.state(): the set of flags that are set
    last_cursor_pos_,   \* POINT last_cursor_pos_
    settings2_,         \* TRUE iff settings2_ is non-null
    callbacks,          \* member name of a callback |-> TRUE iff it is non-empty
    surface_size,       \* Size of the composition surface (two floats)
    sent,
    native,
    notified,
    cerr,
    last,               \* history: the operation that ran last, its arguments and result
    pressed,            \* history: button |-> is_down of its latest SetPointerButtonState
    cursor_arg,         \* history: the arguments of the latest SetCursorPos
    ops                 \* history: number of operations run

vars == <<virtual_keys_, last_cursor_pos_, settings2_, callbacks, surface_size,
          sent, native, notified, cerr, last, pressed, cursor_arg, ops>>

(***************************************************************************)
(* Bounds of the model.                                                    *)
(***************************************************************************)
MaxOps == 3

(***************************************************************************)
(* Numbers.  A double is [cls |-> "finite", v |-> n], the value n / Den, or *)
(* [cls |-> "huge", v |-> s]: a finite double of sign s whose magnitude    *)
(* exceeds the range of LONG (1e10, say).  NaN and -0.0 are not among the  *)
(* arguments drawn.                                                        *)
(***************************************************************************)
Den == 8

LONG_MAX == 2147483647

LONG_MIN == -LONG_MAX - 1

SHRT_MAX == 32767

SHRT_MIN == -SHRT_MAX - 1

kScrollMultiplier == 6

Dbl(n) == [cls |-> "finite", v |-> n]

Huge == [cls |-> "huge", v |-> 1]

Zero == Dbl(0)

\* delta * kScrollMultiplier (exact for the doubles of the model)
Times(d, k) == IF d.cls = "finite" THEN Dbl(d.v * k) ELSE d

\* the integer a finite double n / Den truncates to (conversion drops the fraction)
TruncTowardZero(n) == IF n >= 0 THEN n \div Den ELSE -((-n) \div Den)

\* the value modulo 2^16, as a signed 16-bit integer
Wrap16(t) == ((t + 32768) % 65536) - 32768

\* static_cast<LONG>(double): the set of results.  A value whose truncation LONG
\* cannot represent is undefined behaviour; LONG_MIN (x86 cvttsd2si) and LONG_MAX
\* (a saturating conversion) stand for what a build may produce.
static_cast_LONG(d) ==
    IF d.cls = "finite" /\ TruncTowardZero(d.v) >= LONG_MIN
                        /\ TruncTowardZero(d.v) <= LONG_MAX
    THEN {TruncTowardZero(d.v)}
    ELSE {LONG_MIN, LONG_MAX}

\* static_cast<short>(double): the set of results; out of range is undefined
\* behaviour (the low 16 bits of the 32-bit conversion, or a saturated value).
static_cast_short(d) ==
    IF d.cls = "finite" /\ TruncTowardZero(d.v) >= SHRT_MIN
                        /\ TruncTowardZero(d.v) <= SHRT_MAX
    THEN {TruncTowardZero(d.v)}
    ELSE IF d.cls = "finite" THEN {Wrap16(TruncTowardZero(d.v)), SHRT_MAX}
    ELSE {0, SHRT_MAX}

(***************************************************************************)
(* Mouse inputs.                                                           *)
(***************************************************************************)
VIRTUAL_KEYS_NONE == {}

POINT(x, y) == [x |-> x, y |-> y]

\* one ICoreWebView2CompositionController::SendMouseInput call
SendMouseInput(kind, keys, data, point) ==
    [kind |-> kind, keys |-> keys, data |-> data, point |-> point]

NoCall ==
    [op |-> "none", ret |-> "void", button |-> "None", is_down |-> FALSE,
     x |-> Zero, y |-> Zero, w |-> 0, h |-> 0, hr |-> "S_OK", present |-> FALSE,
     str |-> <<>>]

Call(op) == [NoCall EXCEPT !.op = op]

NoCursorArg == [set |-> FALSE, x |-> Zero, y |-> Zero]

Buttons == {"Primary", "Secondary", "Tertiary"}

(***************************************************************************)
(* Inputs the host draws its arguments from.                               *)
(***************************************************************************)
\* (-1.5, 2.5), (2.5, -0.5), (1e10, 2.5)
CursorInputs == {<<Dbl(-12), Dbl(20)>>, <<Dbl(20), Dbl(-4)>>, <<Huge, Dbl(20)>>}

PointerButtons == Buttons \cup {"None"}

\* (0, 0), (-0.125, 0), (0, 20), (-0.125, 20), (5462, 0): 5462 * 6 exceeds SHRT_MAX
ScrollInputs ==
    {<<Zero, Zero>>, <<Dbl(-1), Zero>>, <<Zero, Dbl(160)>>, <<Dbl(-1), Dbl(160)>>,
     <<Dbl(43696), Zero>>}

\* 800 x 600, and a width one past 2^24, the last integer float counts exactly
SurfaceSizes == {<<800, 600>>, <<16777217, 600>>}

\* native result codes: success, a success code other than S_OK, failure
HRESULTS == {"S_OK", "S_FALSE", "E_FAIL"}

BoundsResults == {"S_OK", "E_FAIL"}

\* "a" followed by the two UTF-8 bytes of U+00E9
Strings == {<<97, 195, 169>>}

\* strings a native getter yields: none, "a", "a" and U+4E2D
WideStrings == {<<>>, <<97>>, <<97, 20013>>}

Cursors == {"IDC_ARROW"}

(***************************************************************************)
(* Construction.                                                           *)
(***************************************************************************)
CallbackNames ==
    {"loading_state_changed_callback_", "url_changed_callback_",
     "document_title_changed_callback_", "cursor_changed_callback_",
     "focus_changed_callback_", "surface_size_changed_callback_"}

EventCallbackNames == CallbackNames \ {"surface_size_changed_callback_"}

\* The state the constructor leaves.  settings2_ is set when get_Settings returns
\* S_OK and the settings object has ICoreWebView2Settings2; the root visual is
\* 1280 x 720; no callback is set; no button is down and the cursor is at the
\* origin (the member initialisers of the class declaration).
Init ==
    /\ virtual_keys_ = VIRTUAL_KEYS_NONE
    /\ last_cursor_pos_ = POINT(0, 0)
    /\ settings2_ \in BOOLEAN
    /\ callbacks = [c \in CallbackNames |-> FALSE]
    /\ surface_size = <<1280, 720>>
    /\ sent = <<>>
    /\ native = <<>>
    /\ notified = <<>>
    /\ cerr = <<>>
    /\ last = NoCall
    /\ pressed = [b \in Buttons |-> FALSE]
    /\ cursor_arg = NoCursorArg
    /\ ops = 0

(***************************************************************************)
(* Pointer commands.                                                       *)
(***************************************************************************)
SetCursorPos(x, y) ==
    /\ ops < MaxOps
    /\ \E px \in static_cast_LONG(x), py \in static_cast_LONG(y) :
          /\ last_cursor_pos_' = POINT(px, py)
          /\ sent' = Append(sent, SendMouseInput("MOVE", virtual_keys_, 0, POINT(px, py)))
    /\ last' = [Call("SetCursorPos") EXCEPT !.x = x, !.y = y]
    /\ cursor_arg' = [set |-> TRUE, x |-> x, y |-> y]
    /\ ops' = ops + 1
    /\ UNCHANGED <<virtual_keys_, settings2_, callbacks, surface_size, native,
                   notified, cerr, pressed>>

\* VirtualKeyState::set(key, flag), behind set_isLeftButtonDown and its siblings:
\* sets or clears one flag of the state and leaves the others
VirtualKeyState_set(keys, key, flag) ==
    IF flag THEN keys \cup {key} ELSE keys \ {key}

\* faulty variant (sensitivity of C5): the Secondary case calls the setter of the
\* left button
UpdateVirtualKeys_WrongSetter(keys, button, is_down) ==
    CASE button = "Primary"   -> VirtualKeyState_set(keys, "LEFT_BUTTON", is_down)
      [] button = "Secondary" -> VirtualKeyState_set(keys, "LEFT_BUTTON", is_down)
      [] button = "Tertiary"  -> VirtualKeyState_set(keys, "MIDDLE_BUTTON", is_down)
      [] OTHER                -> keys

\* the switch of SetPointerButtonState: the setter each button calls
UpdateVirtualKeys(keys, button, is_down) ==
    CASE button = "Primary"   -> VirtualKeyState_set(keys, "LEFT_BUTTON", is_down)
      [] button = "Secondary" -> VirtualKeyState_set(keys, "RIGHT_BUTTON", is_down)
      [] button = "Tertiary"  -> VirtualKeyState_set(keys, "MIDDLE_BUTTON", is_down)
      [] OTHER                -> keys

\* faulty variant (sensitivity of C3): the Tertiary case has DOWN and UP exchanged
ButtonEventKind_Swapped(button, is_down) ==
    CASE button = "Primary" ->
            IF is_down THEN "LEFT_BUTTON_DOWN" ELSE "LEFT_BUTTON_UP"
      [] button = "Secondary" ->
            IF is_down THEN "RIGHT_BUTTON_DOWN" ELSE "RIGHT_BUTTON_UP"
      [] button = "Tertiary" ->
            IF is_down THEN "MIDDLE_BUTTON_UP" ELSE "MIDDLE_BUTTON_DOWN"
      [] OTHER -> "0"

\* the switch of SetPointerButtonState: the kind of the input
ButtonEventKind(button, is_down) ==
    CASE button = "Primary" ->
            IF is_down THEN "LEFT_BUTTON_DOWN" ELSE "LEFT_BUTTON_UP"
      [] button = "Secondary" ->
            IF is_down THEN "RIGHT_BUTTON_DOWN" ELSE "RIGHT_BUTTON_UP"
      [] button = "Tertiary" ->
            IF is_down THEN "MIDDLE_BUTTON_DOWN" ELSE "MIDDLE_BUTTON_UP"
      [] OTHER -> "0"

SetPointerButtonState(button, is_down) ==
    /\ ops < MaxOps
    /\ virtual_keys_' = UpdateVirtualKeys(virtual_keys_, button, is_down)
    /\ sent' = Append(sent, SendMouseInput(ButtonEventKind(button, is_down),
                                           virtual_keys_', 0, last_cursor_pos_))
    /\ last' = [Call("SetPointerButtonState") EXCEPT !.button = button,
                                                      !.is_down = is_down]
    /\ pressed' = IF button \in Buttons
                  THEN [pressed EXCEPT ![button] = is_down]
                  ELSE pressed
    /\ ops' = ops + 1
    /\ UNCHANGED <<last_cursor_pos_, settings2_, callbacks, surface_size, native,
                   notified, cerr, cursor_arg>>

(***************************************************************************)
(* Scrolling.                                                              *)
(***************************************************************************)
\* faulty variant (sensitivity of C1): the X button is not released
SendScroll_NoButtonUp(offset, horizontal) ==
    << SendMouseInput("X_BUTTON_DOWN", VIRTUAL_KEYS_NONE, 0, last_cursor_pos_),
       IF horizontal
       THEN SendMouseInput("HORIZONTAL_WHEEL", virtual_keys_, offset, last_cursor_pos_)
       ELSE SendMouseInput("WHEEL", virtual_keys_, offset, last_cursor_pos_) >>

\* faulty variant (sensitivity of C9): the X button inputs carry the virtual keys
SendScroll_KeysOnXButton(offset, horizontal) ==
    << SendMouseInput("X_BUTTON_DOWN", virtual_keys_, 0, last_cursor_pos_),
       IF horizontal
       THEN SendMouseInput("HORIZONTAL_WHEEL", virtual_keys_, offset, last_cursor_pos_)
       ELSE SendMouseInput("WHEEL", virtual_keys_, offset, last_cursor_pos_),
       SendMouseInput("X_BUTTON_UP", virtual_keys_, 0, last_cursor_pos_) >>

\* the three inputs of one SendScroll call, offset being static_cast<short>(delta * 6)
SendScroll(offset, horizontal) ==
    << SendMouseInput("X_BUTTON_DOWN", VIRTUAL_KEYS_NONE, 0, last_cursor_pos_),
       IF horizontal
       THEN SendMouseInput("HORIZONTAL_WHEEL", virtual_keys_, offset, last_cursor_pos_)
       ELSE SendMouseInput("WHEEL", virtual_keys_, offset, last_cursor_pos_),
       SendMouseInput("X_BUTTON_UP", VIRTUAL_KEYS_NONE, 0, last_cursor_pos_) >>

\* faulty variant (sensitivity of C7): the vertical scroll is sent first.
ScrollDeltaInputs_VerticalFirst(delta_x, delta_y, offset_x, offset_y) ==
    (IF delta_y # Zero THEN SendScroll(offset_y, FALSE) ELSE <<>>)
    \o (IF delta_x # Zero THEN SendScroll(offset_x, TRUE) ELSE <<>>)

\* the inputs of one SetScrollDelta call, given the offsets its SendScroll calls compute
ScrollDeltaInputs(delta_x, delta_y, offset_x, offset_y) ==
    (IF delta_x # Zero THEN SendScroll(offset_x, TRUE) ELSE <<>>)
    \o (IF delta_y # Zero THEN SendScroll(offset_y, FALSE) ELSE <<>>)

SetScrollDelta(delta_x, delta_y) ==
    /\ ops < MaxOps
    /\ \E offset_x \in static_cast_short(Times(delta_x, kScrollMultiplier)),
          offset_y \in static_cast_short(Times(delta_y, kScrollMultiplier)) :
          sent' = sent \o ScrollDeltaInputs(delta_x, delta_y, offset_x, offset_y)
    /\ last' = [Call("SetScrollDelta") EXCEPT !.x = delta_x, !.y = delta_y]
    /\ ops' = ops + 1
    /\ UNCHANGED <<virtual_keys_, last_cursor_pos_, settings2_, callbacks,
                   surface_size, native, notified, cerr, pressed, cursor_arg>>

(***************************************************************************)
(* Surface, cookies, user agent, navigation.                               *)
(***************************************************************************)
\* one native call other than SendMouseInput: its name, arguments and result
NativeCall(call, rect, str, hr) ==
    [call |-> call, rect |-> rect, str |-> str, hr |-> hr]

NoRect == <<0, 0, 0, 0>>

\* the unit in the last place of the float nearest n: 2^e with n < 2^24 * 2^e
RECURSIVE FloatUlp(_, _)
FloatUlp(n, q) == IF n \div q < 16777216 THEN q ELSE FloatUlp(n, 2 * q)

\* (float)n for a size_t n: n rounded to a 24-bit significand, ties to even
float(n) ==
    LET q  == FloatUlp(n, 1)
        r  == n % q
        lo == n - r
    IN  IF 2 * r < q THEN lo
        ELSE IF 2 * r > q THEN lo + q
        ELSE IF (lo \div q) % 2 = 0 THEN lo ELSE lo + q

\* static_cast<LONG>(n) for a size_t n: n modulo 2^32, as a signed 32-bit value
static_cast_LONG_size_t(n) ==
    IF n <= LONG_MAX THEN n ELSE ((n - LONG_MAX) - LONG_MAX) - 2

\* faulty variant (sensitivity of C8): right and bottom exchanged
SurfaceBounds_Swapped(width, height) ==
    <<0, 0, static_cast_LONG_size_t(height), static_cast_LONG_size_t(width)>>

\* RECT bounds of SetSurfaceSize: left, top, right, bottom
SurfaceBounds(width, height) ==
    <<0, 0, static_cast_LONG_size_t(width), static_cast_LONG_size_t(height)>>

\* a host callback invoked with its arguments
Notify(callback, arg, str, w, h) ==
    [callback |-> callback, arg |-> arg, str |-> str, w |-> w, h |-> h]

\* present: what surface_.get() yields; hr: the result of put_Bounds
SetSurfaceSize(width, height, present, hr) ==
    /\ ops < MaxOps
    /\ ~present => hr = "S_OK"
    /\ IF present
       THEN /\ surface_size' = <<float(width), float(height)>>
            /\ native' = Append(native,
                   NativeCall("put_Bounds", SurfaceBounds(width, height), <<>>, hr))
            /\ cerr' = IF hr # "S_OK"
                       THEN Append(cerr, "Setting webview bounds failed.")
                       ELSE cerr
            /\ notified' = IF callbacks["surface_size_changed_callback_"]
                           THEN Append(notified,
                                    Notify("surface_size_changed_callback_", "",
                                           <<>>, width, height))
                           ELSE notified
       ELSE UNCHANGED <<surface_size, native, cerr, notified>>
    /\ last' = [Call("SetSurfaceSize") EXCEPT !.w = width, !.h = height,
                                               !.present = present, !.hr = hr]
    /\ ops' = ops + 1
    /\ UNCHANGED <<virtual_keys_, last_cursor_pos_, settings2_, callbacks, sent,
                   pressed, cursor_arg>>

\* faulty variant (sensitivity of C4): any success code counts, as SUCCEEDED(hr) would
ClearCookiesResult_Succeeded(hr) == hr # "E_FAIL"

\* the value ClearCookies returns for the result of CallDevToolsProtocolMethod
ClearCookiesResult(hr) == hr = "S_OK"

Bool(b) == IF b THEN "true" ELSE "false"

ClearCookies(hr) ==
    /\ ops < MaxOps
    /\ native' = Append(native,
           NativeCall("CallDevToolsProtocolMethod", NoRect, <<>>, hr))
    /\ last' = [Call("ClearCookies") EXCEPT !.ret = Bool(ClearCookiesResult(hr)),
                                             !.hr = hr]
    /\ ops' = ops + 1
    /\ UNCHANGED <<virtual_keys_, last_cursor_pos_, settings2_, callbacks,
                   surface_size, sent, notified, cerr, pressed, cursor_arg>>

\* towstring: std::wstring(str.begin(), str.end()) widens each char on its own;
\* char is signed, so a byte of 0x80 or more sign-extends to 0xFF80..0xFFFF
towstring(str) ==
    [i \in 1..Len(str) |-> IF str[i] < 128 THEN str[i] ELSE 65280 + str[i]]

\* the value SetUserAgent returns when settings2_ is set, for the result of put_UserAgent
SetUserAgentResult(hr) == hr = "S_OK"

\* hr: the result of put_UserAgent, when it is called
SetUserAgent(user_agent, hr) ==
    /\ ops < MaxOps
    /\ IF settings2_
       THEN /\ native' = Append(native,
                   NativeCall("put_UserAgent", NoRect, towstring(user_agent), hr))
            /\ last' = [Call("SetUserAgent") EXCEPT
                           !.ret = Bool(SetUserAgentResult(hr)), !.hr = hr,
                           !.str = user_agent]
       ELSE /\ hr = "S_OK"
            /\ native' = native
            /\ last' = [Call("SetUserAgent") EXCEPT !.ret = "false",
                                                     !.str = user_agent]
    /\ ops' = ops + 1
    /\ UNCHANGED <<virtual_keys_, last_cursor_pos_, settings2_, callbacks,
                   surface_size, sent, notified, cerr, pressed, cursor_arg>>

LoadUrl(url) ==
    /\ ops < MaxOps
    /\ native' = Append(native, NativeCall("Navigate", NoRect, towstring(url), "S_OK"))
    /\ last' = [Call("LoadUrl") EXCEPT !.str = url]
    /\ ops' = ops + 1
    /\ UNCHANGED <<virtual_keys_, last_cursor_pos_, settings2_, callbacks,
                   surface_size, sent, notified, cerr, pressed, cursor_arg>>

LoadStringContent(content) ==
    /\ ops < MaxOps
    /\ native' = Append(native,
           NativeCall("NavigateToString", NoRect, towstring(content), "S_OK"))
    /\ last' = [Call("LoadStringContent") EXCEPT !.str = content]
    /\ ops' = ops + 1
    /\ UNCHANGED <<virtual_keys_, last_cursor_pos_, settings2_, callbacks,
                   surface_size, sent, notified, cerr, pressed, cursor_arg>>

Reload ==
    /\ ops < MaxOps
    /\ native' = Append(native, NativeCall("Reload", NoRect, <<>>, "S_OK"))
    /\ last' = Call("Reload")
    /\ ops' = ops + 1
    /\ UNCHANGED <<virtual_keys_, last_cursor_pos_, settings2_, callbacks,
                   surface_size, sent, notified, cerr, pressed, cursor_arg>>

(***************************************************************************)
(* Callbacks of the host.                                                  *)
(***************************************************************************)
\* the host sets (cb = TRUE) or clears one of the callback members
RegisterCallback(name, cb) ==
    /\ ops < MaxOps
    /\ callbacks' = [callbacks EXCEPT ![name] = cb]
    /\ last' = Call("RegisterCallback")
    /\ ops' = ops + 1
    /\ UNCHANGED <<virtual_keys_, last_cursor_pos_, settings2_, surface_size, sent,
                   native, notified, cerr, pressed, cursor_arg>>

(***************************************************************************)
(* The handlers RegisterEventHandlers installs, one action per native      *)
(* event.  Each returns S_OK (last.ret).                                   *)
(***************************************************************************)
\* CW2A: the wide string in the ANSI code page, one unit at a time; a unit the
\* code page lacks (here: any unit past ASCII) becomes the default character '?'
CW2A(wstr) == [i \in 1..Len(wstr) |-> IF wstr[i] < 128 THEN wstr[i] ELSE 63]

\* what every handler leaves alone
HandlerFrame ==
    /\ ops' = ops + 1
    /\ UNCHANGED <<virtual_keys_, last_cursor_pos_, settings2_, callbacks,
                   surface_size, sent, native, cerr, pressed, cursor_arg>>

ContentLoading ==
    /\ ops < MaxOps
    /\ notified' = IF callbacks["loading_state_changed_callback_"]
                   THEN Append(notified, Notify("loading_state_changed_callback_",
                                                "Loading", <<>>, 0, 0))
                   ELSE notified
    /\ last' = [Call("ContentLoading") EXCEPT !.ret = "S_OK"]
    /\ HandlerFrame

\* faulty variant (sensitivity of C2): the handler reports Loading
NavigationCompleted_ReportsLoading ==
    /\ ops < MaxOps
    /\ notified' = IF callbacks["loading_state_changed_callback_"]
                   THEN Append(notified, Notify("loading_state_changed_callback_",
                                                "Loading", <<>>, 0, 0))
                   ELSE notified
    /\ last' = [Call("NavigationCompleted") EXCEPT !.ret = "S_OK"]
    /\ HandlerFrame

NavigationCompleted ==
    /\ ops < MaxOps
    /\ notified' = IF callbacks["loading_state_changed_callback_"]
                   THEN Append(notified, Notify("loading_state_changed_callback_",
                                                "NavigationCompleted", <<>>, 0, 0))
                   ELSE notified
    /\ last' = [Call("NavigationCompleted") EXCEPT !.ret = "S_OK"]
    /\ HandlerFrame

\* hr, wurl: the result of get_Source and the string it yields
SourceChanged(hr, wurl) ==
    /\ ops < MaxOps
    /\ hr # "S_OK" => wurl = <<>>
    /\ notified' = IF callbacks["url_changed_callback_"] /\ hr = "S_OK"
                   THEN Append(notified, Notify("url_changed_callback_", "",
                                                CW2A(wurl), 0, 0))
                   ELSE notified
    /\ last' = [Call("SourceChanged") EXCEPT !.ret = "S_OK", !.hr = hr,
                                              !.str = wurl]
    /\ HandlerFrame

\* hr, wtitle: the result of get_DocumentTitle and the string it yields
DocumentTitleChanged(hr, wtitle) ==
    /\ ops < MaxOps
    /\ hr # "S_OK" => wtitle = <<>>
    /\ notified' = IF callbacks["document_title_changed_callback_"] /\ hr = "S_OK"
                   THEN Append(notified, Notify("document_title_changed_callback_",
                                                "", CW2A(wtitle), 0, 0))
                   ELSE notified
    /\ last' = [Call("DocumentTitleChanged") EXCEPT !.ret = "S_OK", !.hr = hr,
                                                     !.str = wtitle]
    /\ HandlerFrame

\* hr, cursor: the result of get_Cursor and the handle it yields
CursorChanged(hr, cursor) ==
    /\ ops < MaxOps
    /\ notified' = IF callbacks["cursor_changed_callback_"] /\ hr = "S_OK"
                   THEN Append(notified, Notify("cursor_changed_callback_", cursor,
                                                <<>>, 0, 0))
                   ELSE notified
    /\ last' = [Call("CursorChanged") EXCEPT !.ret = "S_OK", !.hr = hr]
    /\ HandlerFrame

GotFocus ==
    /\ ops < MaxOps
    /\ notified' = IF callbacks["focus_changed_callback_"]
                   THEN Append(notified, Notify("focus_changed_callback_", "true",
                                                <<>>, 0, 0))
                   ELSE notified
    /\ last' = [Call("GotFocus") EXCEPT !.ret = "S_OK"]
    /\ HandlerFrame

LostFocus ==
    /\ ops < MaxOps
    /\ notified' = IF callbacks["focus_changed_callback_"]
                   THEN Append(notified, Notify("focus_changed_callback_", "false",
                                                <<>>, 0, 0))
                   ELSE notified
    /\ last' = [Call("LostFocus") EXCEPT !.ret = "S_OK"]
    /\ HandlerFrame

(***************************************************************************)
(* The commands of the host.                                               *)
(***************************************************************************)
Next ==
    \/ \E p \in CursorInputs : SetCursorPos(p[1], p[2])
    \/ \E b \in PointerButtons, d \in BOOLEAN : SetPointerButtonState(b, d)
    \/ \E p \in ScrollInputs : SetScrollDelta(p[1], p[2])
    \/ \E p \in SurfaceSizes, present \in BOOLEAN, hr \in BoundsResults :
          SetSurfaceSize(p[1], p[2], present, hr)
    \/ \E hr \in HRESULTS : ClearCookies(hr)
    \/ \E str \in Strings, hr \in HRESULTS : SetUserAgent(str, hr)
    \/ \E str \in Strings : LoadUrl(str)
    \/ \E str \in Strings : LoadStringContent(str)
    \/ Reload
    \/ \E cb \in BOOLEAN : RegisterCallback("surface_size_changed_callback_", cb)

Spec == Init /\ [][Next]_vars

(***************************************************************************)
(* The native events, with the host registering and clearing callbacks.    *)
(***************************************************************************)
NextEvents ==
    \/ \E name \in EventCallbackNames, cb \in BOOLEAN : RegisterCallback(name, cb)
    \/ ContentLoading
    \/ NavigationCompleted
    \/ \E hr \in HRESULTS, wurl \in WideStrings :
          SourceChanged(hr, wurl)
    \/ \E hr \in HRESULTS, wtitle \in WideStrings :
          DocumentTitleChanged(hr, wtitle)
    \/ \E hr \in HRESULTS, cursor \in Cursors : CursorChanged(hr, cursor)
    \/ GotFocus
    \/ LostFocus

SpecEvents == Init /\ [][NextEvents]_vars

(***************************************************************************)
(* Vocabulary of the properties.                                           *)
(***************************************************************************)
WheelKinds == {"WHEEL", "HORIZONTAL_WHEEL"}

XButtonKinds == {"X_BUTTON_DOWN", "X_BUTTON_UP"}

\* the inputs, calls or notifications a step adds to a log
Added(log, log2) == SubSeq(log2, Len(log) + 1, Len(log2))

\* a step only appends to the log
Extends(log, log2) == Len(log) <= Len(log2) /\ SubSeq(log2, 1, Len(log)) = log

Kinds(inputs) == [i \in 1..Len(inputs) |-> inputs[i].kind]

\* the flags of the buttons whose latest SetPointerButtonState had is_down = TRUE
HeldFlags(p) ==
    {f \in {"LEFT_BUTTON", "RIGHT_BUTTON", "MIDDLE_BUTTON"} :
        \/ f = "LEFT_BUTTON" /\ p["Primary"]
        \/ f = "RIGHT_BUTTON" /\ p["Secondary"]
        \/ f = "MIDDLE_BUTTON" /\ p["Tertiary"]}

(***************************************************************************)
(* C1.  In the inputs the control has received, every wheel input stands   *)
(* between an X_BUTTON_DOWN and an X_BUTTON_UP; every X_BUTTON_DOWN is     *)
(* followed by one wheel input and an X_BUTTON_UP, every X_BUTTON_UP comes *)
(* after an X_BUTTON_DOWN and one wheel input; the downs and ups of the X  *)
(* button alternate, starting with a down and ending with an up.           *)
(***************************************************************************)
C1_ScrollIsFramedByXButton ==
    LET n == Len(sent)
        K(i) == sent[i].kind
        xs == SelectSeq(sent, LAMBDA m : m.kind \in XButtonKinds)
    IN  /\ \A i \in 1..n :
              /\ K(i) \in WheelKinds =>
                    /\ i > 1 /\ i < n
                    /\ K(i - 1) = "X_BUTTON_DOWN"
                    /\ K(i + 1) = "X_BUTTON_UP"
              /\ K(i) = "X_BUTTON_DOWN" =>
                    /\ i + 2 <= n
                    /\ K(i + 1) \in WheelKinds
                    /\ K(i + 2) = "X_BUTTON_UP"
              /\ K(i) = "X_BUTTON_UP" =>
                    /\ i >= 3
                    /\ K(i - 1) \in WheelKinds
                    /\ K(i - 2) = "X_BUTTON_DOWN"
        /\ Len(xs) % 2 = 0
        /\ \A j \in 1..Len(xs) :
              xs[j].kind = IF j % 2 = 1 THEN "X_BUTTON_DOWN" ELSE "X_BUTTON_UP"

\* a horizontal scroll, a button press, a vertical scroll
C1_Witness ==
    /\ last.op = "SetScrollDelta"
    /\ \E i, j, k \in 1..Len(sent) :
          /\ i < j /\ j < k
          /\ sent[i].kind = "HORIZONTAL_WHEEL"
          /\ sent[j].kind = "LEFT_BUTTON_DOWN"
          /\ sent[k].kind = "WHEEL"

(***************************************************************************)
(* C2.  A native event invokes the callback of its own kind once, with the *)
(* value of the event, when that callback is set (and, for SourceChanged,  *)
(* DocumentTitleChanged and CursorChanged, the getter returned S_OK), and  *)
(* invokes nothing otherwise; the handler returns S_OK in every case.      *)
(***************************************************************************)
EventNames ==
    {"ContentLoading", "NavigationCompleted", "SourceChanged",
     "DocumentTitleChanged", "CursorChanged", "GotFocus", "LostFocus"}

C2_CallbackOf(event) ==
    CASE event \in {"ContentLoading", "NavigationCompleted"} ->
            "loading_state_changed_callback_"
      [] event = "SourceChanged" -> "url_changed_callback_"
      [] event = "DocumentTitleChanged" -> "document_title_changed_callback_"
      [] event = "CursorChanged" -> "cursor_changed_callback_"
      [] event \in {"GotFocus", "LostFocus"} -> "focus_changed_callback_"

C2_EventsReachTheirCallback ==
    [][last'.op \in EventNames =>
          LET e == last'.op
              cb == C2_CallbackOf(e)
              getter == e \in {"SourceChanged", "DocumentTitleChanged", "CursorChanged"}
              new == Added(notified, notified')
          IN  /\ last'.ret = "S_OK"
              /\ Extends(notified, notified')
              /\ IF callbacks[cb] /\ (getter => last'.hr = "S_OK")
                 THEN /\ Len(new) = 1
                      /\ new[1].callback = cb
                      /\ e = "ContentLoading" => new[1].arg = "Loading"
                      /\ e = "NavigationCompleted" => new[1].arg = "NavigationCompleted"
                      /\ e = "GotFocus" => new[1].arg = "true"
                      /\ e = "LostFocus" => new[1].arg = "false"
                 ELSE new = <<>>
    ]_vars

\* the callback is set and was invoked once; then the getter fails and nothing is invoked
C2_Witness ==
    /\ last.op = "CursorChanged"
    /\ last.hr = "E_FAIL"
    /\ callbacks["cursor_changed_callback_"]
    /\ Len(notified) = 1
    /\ notified[1].callback = "cursor_changed_callback_"

(***************************************************************************)
(* C3.  SetCursorPos sends exactly one MOVE input; SetPointerButtonState   *)
(* sends exactly one input, of the DOWN kind of the button when is_down    *)
(* and of its UP kind otherwise (Primary: LEFT, Secondary: RIGHT,          *)
(* Tertiary: MIDDLE); any other button sends one input of kind 0 and       *)
(* changes no button state.  All these inputs carry mouse data 0.          *)
(***************************************************************************)
C3_KindOf(button, is_down) ==
    CASE button = "Primary" /\ is_down -> "LEFT_BUTTON_DOWN"
      [] button = "Primary" /\ ~is_down -> "LEFT_BUTTON_UP"
      [] button = "Secondary" /\ is_down -> "RIGHT_BUTTON_DOWN"
      [] button = "Secondary" /\ ~is_down -> "RIGHT_BUTTON_UP"
      [] button = "Tertiary" /\ is_down -> "MIDDLE_BUTTON_DOWN"
      [] button = "Tertiary" /\ ~is_down -> "MIDDLE_BUTTON_UP"
      [] OTHER -> "0"

C3_PointerCommandsSendOneInput ==
    [][LET new == Added(sent, sent')
       IN  /\ last'.op = "SetCursorPos" =>
                 /\ Extends(sent, sent')
                 /\ Len(new) = 1
                 /\ new[1].kind = "MOVE"
                 /\ new[1].data = 0
           /\ last'.op = "SetPointerButtonState" =>
                 /\ Extends(sent, sent')
                 /\ Len(new) = 1
                 /\ new[1].kind = C3_KindOf(last'.button, last'.is_down)
                 /\ new[1].data = 0
                 /\ last'.button \notin Buttons =>
                       /\ new[1].kind = "0"
                       /\ virtual_keys_' = virtual_keys_
    ]_vars

\* a button outside the three, while a button is held
C3_Witness ==
    /\ last.op = "SetPointerButtonState"
    /\ last.button = "None"
    /\ virtual_keys_ = {"MIDDLE_BUTTON"}
    /\ sent[Len(sent)].kind = "0"

(***************************************************************************)
(* C4.  ClearCookies returns true exactly when CallDevToolsProtocolMethod  *)
(* returns S_OK.  SetUserAgent returns true exactly when settings2_ is set *)
(* and put_UserAgent returns S_OK; without settings2_ it returns false and *)
(* makes no native call.  Neither changes the button state or the last     *)
(* cursor position.                                                        *)
(***************************************************************************)
C4_ResultCodesPropagate ==
    [][LET new == Added(native, native')
       IN  /\ last'.op = "ClearCookies" =>
                 /\ Extends(native, native')
                 /\ Len(new) = 1
                 /\ new[1].call = "CallDevToolsProtocolMethod"
                 /\ last'.ret = IF new[1].hr = "S_OK" THEN "true" ELSE "false"
           /\ last'.op = "SetUserAgent" =>
                 /\ Extends(native, native')
                 /\ IF settings2_
                    THEN /\ Len(new) = 1
                         /\ new[1].call = "put_UserAgent"
                         /\ last'.ret = IF new[1].hr = "S_OK" THEN "true" ELSE "false"
                    ELSE /\ new = <<>>
                         /\ sent' = sent
                         /\ last'.ret = "false"
           /\ last'.op \in {"ClearCookies", "SetUserAgent"} =>
                 /\ virtual_keys_' = virtual_keys_
                 /\ last_cursor_pos_' = last_cursor_pos_
    ]_vars

\* a success code other than S_OK, with a button held and the cursor moved
C4_Witness ==
    /\ last.op = "ClearCookies"
    /\ native[Len(native)].hr = "S_FALSE"
    /\ last.ret = "false"
    /\ virtual_keys_ # {}
    /\ cursor_arg.set

(***************************************************************************)
(* C5.  The virtual-key state of every MOVE, button and wheel input is the *)
(* set of the buttons among left, right and middle whose latest            *)
(* SetPointerButtonState had is_down = TRUE, that call included: a         *)
(* button-down input carries its own flag, a button-up input does not, and *)
(* a call for one button leaves the flags of the others.                   *)
(***************************************************************************)
C5_KeysAreTheHeldButtons ==
    [][LET new == Added(sent, sent')
       IN  /\ virtual_keys_' = HeldFlags(pressed')
           /\ \A i \in 1..Len(new) :
                 new[i].kind \notin XButtonKinds => new[i].keys = HeldFlags(pressed')
    ]_vars

\* left and right pressed, then right released: the release carries left alone
C5_Witness ==
    /\ last.op = "SetPointerButtonState"
    /\ last.button = "Secondary"
    /\ ~last.is_down
    /\ Len(sent) = 3
    /\ sent[1].keys = {"LEFT_BUTTON"}
    /\ sent[2].keys = {"LEFT_BUTTON", "RIGHT_BUTTON"}
    /\ sent[3].keys = {"LEFT_BUTTON"}

(***************************************************************************)
(* C6.  Once SetCursorPos was called, the last cursor position and the     *)
(* point of every input sent since are the arguments of the latest         *)
(* SetCursorPos call, each truncated toward zero.                          *)
(***************************************************************************)
\* the integer a double truncates to, and a LONG, as mathematical integers
C6_Truncated(d) == IF d.cls = "finite" THEN Dbl(TruncTowardZero(d.v)) ELSE d

C6_Integer(n) == Dbl(n)

C6_IsLatestCursorPos(point) ==
    /\ C6_Integer(point.x) = C6_Truncated(cursor_arg.x)
    /\ C6_Integer(point.y) = C6_Truncated(cursor_arg.y)

C6_PointIsTruncatedCursorPos ==
    cursor_arg.set =>
        /\ C6_IsLatestCursorPos(last_cursor_pos_)
        /\ sent # <<>> /\ C6_IsLatestCursorPos(sent[Len(sent)].point)
        /\ last.op = "SetScrollDelta" /\ (last.x # Zero \/ last.y # Zero) =>
              /\ sent[Len(sent) - 1].point = sent[Len(sent)].point
              /\ sent[Len(sent) - 2].point = sent[Len(sent)].point

(***************************************************************************)
(* C7.  SetScrollDelta sends the three inputs of a horizontal scroll when  *)
(* delta_x is not zero, then the three inputs of a vertical scroll when    *)
(* delta_y is not zero, and nothing else.                                  *)
(***************************************************************************)
C7_ScrollsSentPerNonZeroAxis ==
    [][last'.op = "SetScrollDelta" =>
          /\ Extends(sent, sent')
          /\ Kinds(Added(sent, sent')) =
                (IF last'.x # Zero
                 THEN <<"X_BUTTON_DOWN", "HORIZONTAL_WHEEL", "X_BUTTON_UP">>
                 ELSE <<>>)
                \o (IF last'.y # Zero
                    THEN <<"X_BUTTON_DOWN", "WHEEL", "X_BUTTON_UP">>
                    ELSE <<>>)
    ]_vars

\* both deltas non-zero (the horizontal one too small to give a wheel offset)
C7_Witness ==
    /\ last.op = "SetScrollDelta"
    /\ last.x # Zero /\ last.y # Zero
    /\ Len(sent) >= 6
    /\ sent[Len(sent) - 4].kind = "HORIZONTAL_WHEEL"
    /\ sent[Len(sent) - 4].data = 0
    /\ sent[Len(sent) - 1].kind = "WHEEL"

C9_ScrollLeavesPointerState ==
    [][LET new == Added(sent, sent')
       IN  /\ Extends(sent, sent')
           /\ last'.op # "SetPointerButtonState" =>
                 virtual_keys_' = virtual_keys_ /\ pressed' = pressed
           /\ last'.op # "SetCursorPos" => last_cursor_pos_' = last_cursor_pos_
           /\ last'.op \in {"LoadUrl", "LoadStringContent", "Reload", "ClearCookies",
                            "SetUserAgent", "SetSurfaceSize"} => new = <<>>
           /\ \A i \in 1..Len(new) :
                 /\ new[i].kind \in XButtonKinds => new[i].keys = VIRTUAL_KEYS_NONE
                 /\ new[i].keys \cap {"X_BUTTON1", "X_BUTTON2"} = {}
    ]_vars

\* a scroll while a button is held, after the cursor moved
C9_Witness ==
    /\ last.op = "SetScrollDelta"
    /\ virtual_keys_ = {"RIGHT_BUTTON"}
    /\ cursor_arg.set
    /\ Len(sent) >= 5
    /\ sent[Len(sent)].kind = "X_BUTTON_UP"
    /\ sent[Len(sent)].keys = {}
    /\ sent[Len(sent) - 1].keys = {"RIGHT_BUTTON"}

====
